---- MODULE Spec2Model ----
(***************************************************************************)
(* Finite-difference vibrations engine of ase/vibrations.py                *)
(* (class Vibrations): the checkpointed force cache run(), clean(), the    *)
(* Hessian assembly read() and get_energies(), as a state machine over a   *)
(* file store shared by the MPI ranks of one job.                          *)
(*                                                                         *)
(* Lengths are integers in units of the default step (0.01), forces are    *)
(* integers, and the Hessian is kept multiplied by HScale * delta so that  *)
(* every division of read() is exact.                                      *)
(***************************************************************************)
EXTENDS Integers, Sequences, FiniteSets, TLC

(* ------------------------------ bounds --------------------------------- *)
MaxIdx == 1          \* longest list of tracked atoms
MaxMissing == 2      \* most records absent from a partly filled initial store
MaxOps == 2          \* calls of run(), clean(), read(), get_energies() per rank
MaxParOps == 1       \* the same, in a job of several ranks
MaxSize == 2         \* most MPI ranks of a job
MaxNfree == 5        \* largest nfree handed to the constructor
MaxTracked == 2      \* longest list of tracked atoms where only run() and read() act
MaxAnaOps == 3       \* calls of read() and get_energies() on a directory left alone
MaxRoot == 3         \* eigenvalues omega^2 are the squares up to this root, with either sign
MaxModes == 3        \* longest spectrum handed to the spectrum and thermodynamic functions
MaxCacheOps == 3     \* calls of run(), clean(), read(), get_energies() on a shared directory
MaxSiestaAtoms == 2  \* most atoms of a structure handed to the Siesta calculator
MaxSpecies == 2      \* longest species argument of the Siesta calculator

NAtoms == MaxIdx + 1                 \* one atom more than can be tracked
Atoms == 0 .. (NAtoms - 1)
Axes == 0 .. 2                       \* range(3)
NfreeArgs == 1 .. MaxNfree
IndexLists == UNION {[1 .. n -> Atoms] : n \in 1 .. MaxIdx}
TrackedLists == UNION {[1 .. n -> Atoms] : n \in 1 .. MaxTracked}

(* --------------------------- pure helpers ------------------------------ *)
RECURSIVE SumOver(_, _)
SumOver(f, S) ==
    IF S = {} THEN 0
    ELSE LET x == CHOOSE y \in S : TRUE IN f[x] + SumOver(f, S \ {x})

RECURSIVE SubsetsUpTo(_, _)
SubsetsUpTo(S, n) ==
    IF n = 0 THEN {{}}
    ELSE LET prev == SubsetsUpTo(S, n - 1)
         IN prev \cup {T \cup {x} : T \in prev, x \in S}

Range(s) == {s[n] : n \in 1 .. Len(s)}

name == "vib"                        \* __init__ default name='vib'
delta == 1                           \* __init__ default delta=0.01, the unit

\* an array of zeros: the value of a local that is not set
Zero == [a \in Atoms |-> [i \in Axes |-> 0]]

\* what the directory holds under a file name
Absent == [st |-> "absent", data |-> Zero]    \* no file: isfile() is False
Empty == [st |-> "empty", data |-> Zero]      \* created by open(.., 'w'), no payload
Full(F) == [st |-> "full", data |-> F]        \* the pickled forces F
NoStore == [f \in {} |-> Absent]

\* 'xyz'[i]
AxisChar(i) == CASE i = 0 -> "x" [] i = 1 -> "y" [] OTHER -> "z"

\* ' +-'[sign]: index 1 is '+', index -1 is the last character '-'
SignChar(sign) == IF sign = 1 THEN "+" ELSE "-"

\* ndis * c: the character repeated ndis times
RECURSIVE Repeat(_, _)
Repeat(c, n) == IF n <= 0 THEN "" ELSE c \o Repeat(c, n - 1)

\* self.name + '.eq.pckl'
EqFile == name \o ".eq.pckl"

\* '%s.%d%s%s.pckl' % (self.name, a, 'xyz'[i], ndis * ' +-'[sign])
FileName(a, i, sign, ndis) ==
    name \o "." \o ToString(a) \o AxisChar(i) \o Repeat(SignChar(sign), ndis) \o ".pckl"

\* every file name the store may hold
AllFiles ==
    {EqFile} \cup {FileName(a, i, s, n) : a \in Atoms, i \in Axes, s \in {-1, 1}, n \in 1 .. 2}

\* range(1, self.nfree/2+1) has nfree/2 entries
PerSign(nf) == nf \div 2

\* The nested loops of run() (for a / for i / for sign in [-1, 1] / for ndis),
\* flattened in visiting order.
NDisp(idx, nf) == Len(idx) * 3 * 2 * PerSign(nf)

\* variant of the sign loop: for sign in [1, -1]
DispPlusFirst(idx, nf, n) ==
    LET per == PerSign(nf)
        m == n - 1
    IN [a |-> idx[(m \div (6 * per)) + 1],
        i |-> (m \div (2 * per)) % 3,
        sign |-> IF (m \div per) % 2 = 0 THEN 1 ELSE -1,
        ndis |-> (m % per) + 1]

Disp(idx, nf, n) ==
    LET per == PerSign(nf)
        m == n - 1
    IN [a |-> idx[(m \div (6 * per)) + 1],
        i |-> (m \div (2 * per)) % 3,
        sign |-> IF (m \div per) % 2 = 0 THEN -1 ELSE 1,
        ndis |-> (m % per) + 1]

DispFile(idx, nf, n) ==
    LET d == Disp(idx, nf, n) IN FileName(d.a, d.i, d.sign, d.ndis)

\* the file of step n of run(): step 0 is the equilibrium record
StepFile(idx, nf, n) == IF n = 0 THEN EqFile ELSE DispFile(idx, nf, n)

Required(idx, nf) == {StepFile(idx, nf, n) : n \in 0 .. NDisp(idx, nf)}

\* atoms.positions of the relaxed input structure
InitPos == [a \in Atoms |-> [i \in Axes |-> 10 * (a + 1) + 3 * i]]

\* self.atoms.positions[a, i] = p[a, i] + ndis * sign * self.delta
Displace(pos, saved, d) ==
    [pos EXCEPT ![d.a][d.i] = saved[d.a][d.i] + d.ndis * d.sign * delta]

\* self.atoms.get_forces(): a deterministic force field, here springs between
\* all pairs of atoms along each axis plus a tether of every atom to the origin.
Oracle(pos) ==
    [b \in Atoms |-> [j \in Axes |->
        SumOver([c \in Atoms |-> 2 * (pos[c][j] - pos[b][j])], Atoms) - pos[b][j]]]

\* variants of isfile(): one that never finds a file, one that takes an empty
\* file for a missing one
IsFileNever(st, f) == FALSE
IsFileComplete(st, f) == st[f].st = "full"

\* isfile(filename)
IsFile(st, f) == st[f].st # "absent"

\* variant of the rank guard: every rank writes
IsWriterAll(r) == TRUE

\* rank == 0
IsWriter(r) == r = 0

(* --------------------------- read(): helpers --------------------------- *)
Unset == "unset"                     \* the attribute has not been assigned
NoMatrix == [set |-> FALSE, m |-> <<>>]          \* None
Matrix(M) == [set |-> TRUE, m |-> M]
NoCall == [exc |-> "none", val |-> NoMatrix]

\* str.lower() on the spellings the callers use
Lower(s) ==
    CASE s = "Standard" -> "standard"
      [] s = "Frederiksen" -> "frederiksen"
      [] s = "Central" -> "central"
      [] s = "Forward" -> "forward"
      [] s = "Backward" -> "backward"
      [] OTHER -> s

\* assert self.method in [...]; assert self.direction in [...]
ValidArgs(lm, ld) ==
    /\ lm \in {"standard", "frederiksen"}
    /\ ld \in {"central", "forward", "backward"}

\* the files read() unpickles, in the order it opens them; d is the direction
\* as passed, which line 170 compares without lower-casing it
RECURSIVE Flatten(_)
Flatten(ss) == IF ss = <<>> THEN <<>> ELSE Head(ss) \o Flatten(Tail(ss))

RowFiles(nf, a, i) ==
    <<FileName(a, i, -1, 1), FileName(a, i, 1, 1)>>
        \o (IF nf = 4 THEN <<FileName(a, i, -1, 2), FileName(a, i, 1, 2)>> ELSE <<>>)

ReadFiles(idx, nf, d) ==
    (IF d # "central" THEN <<EqFile>> ELSE <<>>)
        \o Flatten([r \in 1 .. 3 * Len(idx) |->
                       RowFiles(nf, idx[((r - 1) \div 3) + 1], (r - 1) % 3)])

\* pickle.load(open(f)): IOError without the file, EOFError on an empty one
LoadExc(st, f) ==
    CASE st[f].st = "absent" -> "IOError"
      [] st[f].st = "empty" -> "EOFError"
      [] OTHER -> "ok"

RECURSIVE FirstExc(_, _)
FirstExc(st, fs) ==
    IF fs = <<>> THEN "ok"
    ELSE IF LoadExc(st, Head(fs)) # "ok" THEN LoadExc(st, Head(fs))
    ELSE FirstExc(st, Tail(fs))

\* how read(m, d) ends: "ok" or the exception it raises
ReadExc(st, idx, nf, m, d) ==
    IF ~ValidArgs(Lower(m), Lower(d)) THEN "AssertionError"
    ELSE FirstExc(st, ReadFiles(idx, nf, d))

\* variant of the correction: the records are used as stored
CorrectedNot(lm, F, a) == F

\* f[a] -= f.sum(0) when self.method == 'frederiksen'
Corrected(lm, F, a) ==
    IF lm = "frederiksen"
    THEN [F EXCEPT ![a] = [j \in Axes |-> F[a][j] - SumOver([b \in Atoms |-> F[b][j]], Atoms)]]
    ELSE F

\* the Hessian is held multiplied by HScale * delta
HScale == 12 * 2

\* variant of the rows: without the division by 2 of H[r] /= 2 * self.delta
RowDiffUnhalved(st, nf, lm, ld, a, i) ==
    LET feq == st[EqFile].data
        fminus == Corrected(lm, st[FileName(a, i, -1, 1)].data, a)
        fplus == Corrected(lm, st[FileName(a, i, 1, 1)].data, a)
        fminusminus == Corrected(lm, st[FileName(a, i, -1, 2)].data, a)
        fplusplus == Corrected(lm, st[FileName(a, i, 1, 2)].data, a)
    IN [b \in Atoms |-> [j \in Axes |->
          IF ld = "central"
          THEN IF nf = 2
               THEN 12 * (fminus[b][j] - fplus[b][j])
               ELSE 2 * ((0 - fminusminus[b][j]) + 8 * fminus[b][j]
                            - 8 * fplus[b][j] + fplusplus[b][j])
          ELSE IF ld = "forward"
               THEN 24 * (feq[b][j] - fplus[b][j])
               ELSE 24 * (fminus[b][j] - feq[b][j])]]

\* H[r] of read() for the displaced coordinate (a, i), before H += H.T,
\* as an array over all atoms, times HScale * delta
RowDiff(st, nf, lm, ld, a, i) ==
    LET feq == st[EqFile].data
        fminus == Corrected(lm, st[FileName(a, i, -1, 1)].data, a)
        fplus == Corrected(lm, st[FileName(a, i, 1, 1)].data, a)
        fminusminus == Corrected(lm, st[FileName(a, i, -1, 2)].data, a)
        fplusplus == Corrected(lm, st[FileName(a, i, 1, 2)].data, a)
    IN [b \in Atoms |-> [j \in Axes |->
          IF ld = "central"
          THEN IF nf = 2
               THEN 6 * (fminus[b][j] - fplus[b][j])
               ELSE (0 - fminusminus[b][j]) + 8 * fminus[b][j]
                        - 8 * fplus[b][j] + fplusplus[b][j]
          ELSE IF ld = "forward"
               THEN 12 * (feq[b][j] - fplus[b][j])
               ELSE 12 * (fminus[b][j] - feq[b][j])]]

\* (...)[self.indices].ravel()
Ravel(F, idx) ==
    [c \in 1 .. 3 * Len(idx) |-> F[idx[((c - 1) \div 3) + 1]][(c - 1) % 3]]

\* variant of the rows: one per coordinate of every atom, tracked or not
RowsAllAtoms(st, idx, nf, lm, ld) ==
    [r \in 1 .. 3 * NAtoms |->
        Ravel(RowDiff(st, nf, lm, ld, (r - 1) \div 3, (r - 1) % 3),
              [k \in 1 .. NAtoms |-> k - 1])]

\* the rows of H before symmetrization
Rows(st, idx, nf, lm, ld) ==
    [r \in 1 .. 3 * Len(idx) |->
        Ravel(RowDiff(st, nf, lm, ld, idx[((r - 1) \div 3) + 1], (r - 1) % 3), idx)]

\* variant of the symmetrization: the rows are stored as filled
SymmetrizedNot(M) == M

\* H += H.copy().T
Symmetrized(M) ==
    [r \in DOMAIN M |-> [c \in DOMAIN M |-> M[r][c] + M[c][r]]]

\* len(self.hnu): np.linalg.eigh returns one eigenvalue for each row of the
\* matrix self.im[:, None] * H * self.im
Entries(h) == Len(h.m)

\* self.H after a read() that does not raise
ReadH(st, idx, nf, m, d) == Symmetrized(Rows(st, idx, nf, Lower(m), Lower(d)))

\* method and direction arguments of the calls made in a run of the script
Methods == {"standard", "Frederiksen"}
Directions == {"central", "forward"}

(* ------------------------------- state --------------------------------- *)
VARIABLES
    size,        \* ase.parallel.size: number of ranks of the job
    nfreeArg,    \* nfree handed to Vibrations(...)
    indices,     \* indices handed to Vibrations(...)
    store,       \* the directory: file name -> Absent, Empty or pickled forces
    wcount,      \* per file, open(.., 'w') calls since it was last removed
    torn,        \* files whose writer was killed between open and dump
    populated,   \* a run() has returned and no clean() followed it
    arrived,     \* per rank, barrier() calls entered
    nOps,        \* per rank, method calls made
    pc,          \* per rank, where the script stands
    positions,   \* per rank, atoms.positions
    p,           \* per rank, run()'s copy p of the positions
    cur,         \* per rank, step of run(): 0 equilibrium, n the n-th displacement
    forces,      \* per rank, run()'s local forces
    startStore,  \* per rank, the store when run() was called
    startPos,    \* per rank, the positions when run() was called
    startPop,    \* per rank, populated when run() was called
    trace,       \* per rank, events of the current run() call
    method,      \* per rank, self.method
    direction,   \* per rank, self.direction
    H,           \* per rank, self.H
    Hrows,       \* per rank, read()'s local H when it reaches H += H.copy().T
    hnu,         \* per rank, self.hnu
    ret,         \* per rank, outcome of the last read() or get_energies() call
    via,         \* per rank, what the method call made last took its spectrum from
    restarts,    \* times the job was started again after being killed
    budget,      \* method calls the script makes on each rank
    call,        \* function applied outside a job, and its arguments
    result       \* what that function returned

anaVars == <<method, direction, H, Hrows, hnu, ret, via>>
cfgVars == <<size, nfreeArg, indices, restarts, budget>>
pureVars == <<call, result>>

vars == <<size, nfreeArg, indices, store, wcount, torn, populated, arrived, nOps,
          pc, positions, p, cur, forces, startStore, startPos, startPop, trace,
          method, direction, H, Hrows, hnu, ret, via, restarts, budget, call, result>>

Ranks == 0 .. (size - 1)
AllRanks == 0 .. (MaxSize - 1)

\* self.nfree of a constructed object
nfree == nfreeArg

Req == Required(indices, nfree)
CurFile(r) == StepFile(indices, nfree, cur[r])
CurDisp(r) == Disp(indices, nfree, cur[r])

Resting(r) == pc[r] \in {"idle", "returned", "raised"}
InRun(r) == pc[r] \in {"eq_check", "barrier", "wait", "eval", "open", "dump",
                       "restore", "loop_init", "dis_check"}

Log(r, e) == [trace EXCEPT ![r] = Append(@, e)]

\* the record an earlier, uninterrupted run left for step n
RecordOf(idx, nf, n) ==
    IF n = 0 THEN Full(Oracle(InitPos))
    ELSE Full(Oracle(Displace(InitPos, InitPos, Disp(idx, nf, n))))

\* the directory after an uninterrupted run() of Vibrations(indices=idx, nfree=nf)
FullStore(idx, nf) ==
    [f \in AllFiles |->
        IF f \in Required(idx, nf)
        THEN RecordOf(idx, nf, CHOOSE n \in 0 .. NDisp(idx, nf) : StepFile(idx, nf, n) = f)
        ELSE Absent]

\* initial directories: that one with up to missing records missing, or empty
InitStores(idx, nf, missing) ==
    LET req == Required(idx, nf)
        full == FullStore(idx, nf)
    IN {[f \in AllFiles |-> IF f \in M THEN Absent ELSE full[f]] :
            M \in SubsetsUpTo(req, missing) \cup {req}}

\* no function is applied outside the job
NoPure == [fn |-> "none"]

\* a job that has not started: no rank has constructed its object
InitJob ==
    /\ wcount = [f \in AllFiles |-> 0]
    /\ torn = {}
    /\ populated = FALSE
    /\ arrived = [r \in AllRanks |-> 0]
    /\ nOps = [r \in AllRanks |-> 0]
    /\ pc = [r \in AllRanks |-> IF r < size THEN "new" ELSE "off"]
    /\ positions = [r \in AllRanks |-> InitPos]
    /\ p = [r \in AllRanks |-> Zero]
    /\ cur = [r \in AllRanks |-> 0]
    /\ forces = [r \in AllRanks |-> Zero]
    /\ startStore = [r \in AllRanks |-> NoStore]
    /\ startPos = [r \in AllRanks |-> Zero]
    /\ startPop = [r \in AllRanks |-> FALSE]
    /\ trace = [r \in AllRanks |-> <<>>]
    /\ method = [r \in AllRanks |-> Unset]
    /\ direction = [r \in AllRanks |-> Unset]
    /\ H = [r \in AllRanks |-> NoMatrix]
    /\ Hrows = [r \in AllRanks |-> NoMatrix]
    /\ hnu = [r \in AllRanks |-> NoMatrix]
    /\ ret = [r \in AllRanks |-> NoCall]
    /\ via = [r \in AllRanks |-> "none"]
    /\ restarts = 0

InitRest == InitJob /\ call = NoPure /\ result = NoPure

InitCommon(missing) ==
    /\ nfreeArg \in NfreeArgs
    /\ indices \in IndexLists
    /\ store \in (IF nfreeArg \in {2, 4} THEN InitStores(indices, nfreeArg, missing)
                  ELSE {FullStore(indices, 4)})
    /\ InitRest

\* a serial job
Init == size = 1 /\ budget = MaxOps /\ InitCommon(MaxMissing)

(* ------------------------------ __init__ ------------------------------- *)
\* variant of the assertion: any nfree passes
ValidNfreeAny(nf) == TRUE

\* assert nfree in [2, 4]
ValidNfree(nf) == nf \in {2, 4}

Construct(r) ==
    /\ pc[r] = "new"
    /\ pc' = [pc EXCEPT ![r] = IF ValidNfree(nfreeArg) THEN "idle" ELSE "ctor_failed"]
    /\ UNCHANGED anaVars
    /\ UNCHANGED cfgVars
    /\ UNCHANGED pureVars
    /\ UNCHANGED <<store, wcount, torn, populated, arrived,
                   nOps, positions, p, cur, forces, startStore, startPos, startPop,
                   trace>>

(* -------------------------------- run() -------------------------------- *)
\* run() is called; filename = self.name + '.eq.pckl'
RunCall(r) ==
    /\ Resting(r)
    /\ nOps[r] < budget
    /\ nOps' = [nOps EXCEPT ![r] = @ + 1]
    /\ pc' = [pc EXCEPT ![r] = "eq_check"]
    /\ cur' = [cur EXCEPT ![r] = 0]
    /\ startStore' = [startStore EXCEPT ![r] = store]
    /\ startPos' = [startPos EXCEPT ![r] = positions[r]]
    /\ startPop' = [startPop EXCEPT ![r] = populated]
    /\ trace' = [trace EXCEPT ![r] = <<>>]
    /\ via' = [via EXCEPT ![r] = "none"]
    /\ UNCHANGED <<method, direction, H, Hrows, hnu, ret>>
    /\ UNCHANGED cfgVars
    /\ UNCHANGED pureVars
    /\ UNCHANGED <<store, wcount, torn, populated, arrived,
                   positions, p, forces>>

\* variant of run(): no barrier() before the evaluation
AfterMissNoBarrier == "eval"

\* where run() goes when isfile(filename) is False: to barrier()
AfterMiss == "barrier"

\* if not isfile(filename):
EqCheck(r) ==
    /\ pc[r] = "eq_check"
    /\ LET present == IsFile(store, EqFile)
       IN /\ pc' = [pc EXCEPT ![r] = IF present THEN "loop_init" ELSE AfterMiss]
          /\ trace' = Log(r, <<"check", EqFile, store[EqFile].st # "absent">>)
    /\ UNCHANGED anaVars
    /\ UNCHANGED cfgVars
    /\ UNCHANGED pureVars
    /\ UNCHANGED <<store, wcount, torn, populated, arrived,
                   nOps, positions, p, cur, forces, startStore, startPos, startPop>>

\* barrier(): the rank arrives
BarrierEnter(r) ==
    /\ pc[r] = "barrier"
    /\ arrived' = [arrived EXCEPT ![r] = @ + 1]
    /\ pc' = [pc EXCEPT ![r] = "wait"]
    /\ trace' = Log(r, <<"barrier", CurFile(r), FALSE>>)
    /\ UNCHANGED anaVars
    /\ UNCHANGED cfgVars
    /\ UNCHANGED pureVars
    /\ UNCHANGED <<store, wcount, torn, populated, nOps,
                   positions, p, cur, forces, startStore, startPos, startPop>>

\* barrier() returns once every rank of the job has arrived as often
BarrierLeave(r) ==
    /\ pc[r] = "wait"
    /\ \A q \in Ranks : arrived[q] >= arrived[r]
    /\ pc' = [pc EXCEPT ![r] = "eval"]
    /\ UNCHANGED anaVars
    /\ UNCHANGED cfgVars
    /\ UNCHANGED pureVars
    /\ UNCHANGED <<store, wcount, torn, populated, arrived,
                   nOps, positions, p, cur, forces, startStore, startPos, startPop,
                   trace>>

\* variant of p: an alias of the positions instead of a copy
SavedAlias(r) == positions[r]

\* the array run() keeps in p: a copy taken by p = self.atoms.positions.copy()
Saved(r) == p[r]

\* the positions get_forces() is called at: unchanged for the equilibrium
\* record, a[a, i] displaced for a displacement
EvalPos(r) ==
    IF cur[r] = 0 THEN positions[r] ELSE Displace(positions[r], Saved(r), CurDisp(r))

\* forces = self.atoms.get_forces() returns
EvalOk(r) ==
    /\ pc[r] = "eval"
    /\ positions' = [positions EXCEPT ![r] = EvalPos(r)]
    /\ forces' = [forces EXCEPT ![r] = Oracle(EvalPos(r))]
    /\ pc' = [pc EXCEPT ![r] = IF IsWriter(r) THEN "open" ELSE "restore"]
    /\ trace' = Log(r, <<"oracle", CurFile(r), FALSE>>)
    /\ UNCHANGED anaVars
    /\ UNCHANGED cfgVars
    /\ UNCHANGED pureVars
    /\ UNCHANGED <<store, wcount, torn, populated, arrived,
                   nOps, p, cur, startStore, startPos, startPop>>

\* the positions run() leaves behind when get_forces() raises: nothing
\* catches the exception, so the displacement stays
AfterRaise(r) == EvalPos(r)

\* variant: the file is opened before get_forces() is called
StoreAfterRaiseCreated(st, f) == [st EXCEPT ![f] = Empty]

\* the store when get_forces() raises: open() comes after it, no file is made
StoreAfterRaise(st, f) == st

\* self.atoms.get_forces() raises; the exception leaves run()
EvalFail(r) ==
    /\ pc[r] = "eval"
    /\ store' = StoreAfterRaise(store, CurFile(r))
    /\ positions' = [positions EXCEPT ![r] = AfterRaise(r)]
    /\ pc' = [pc EXCEPT ![r] = "raised"]
    /\ forces' = [forces EXCEPT ![r] = Zero]
    /\ trace' = Log(r, <<"raise", CurFile(r), FALSE>>)
    /\ UNCHANGED anaVars
    /\ UNCHANGED cfgVars
    /\ UNCHANGED pureVars
    /\ UNCHANGED <<wcount, torn, populated, arrived,
                   nOps, p, cur, startStore, startPos, startPop>>

\* fd = open(filename, 'w'): creates the file, or truncates it
Open(r) ==
    /\ pc[r] = "open"
    /\ store' = [store EXCEPT ![CurFile(r)] = Empty]
    /\ wcount' = [wcount EXCEPT ![CurFile(r)] = @ + 1]
    /\ pc' = [pc EXCEPT ![r] = "dump"]
    /\ trace' = Log(r, <<"write", CurFile(r), FALSE>>)
    /\ UNCHANGED anaVars
    /\ UNCHANGED cfgVars
    /\ UNCHANGED pureVars
    /\ UNCHANGED <<torn, populated, arrived, nOps, positions,
                   p, cur, forces, startStore, startPos, startPop>>

\* variant of the dump: nothing reaches the file
DumpedNothing(r) == Empty

\* what pickle.dump(forces, fd) puts into the file
Dumped(r) == Full(forces[r])

\* pickle.dump(forces, fd); fd.close(); a file removed since open() stays removed
Dump(r) ==
    /\ pc[r] = "dump"
    /\ store' = [store EXCEPT ![CurFile(r)] = IF @.st = "absent" THEN @ ELSE Dumped(r)]
    /\ pc' = [pc EXCEPT ![r] = "restore"]
    /\ UNCHANGED anaVars
    /\ UNCHANGED cfgVars
    /\ UNCHANGED pureVars
    /\ UNCHANGED <<wcount, torn, populated, arrived, nOps,
                   positions, p, cur, forces, startStore, startPos, startPop, trace>>

\* the positions after self.atoms.positions[a, i] = p[a, i]
Restored(r) ==
    IF cur[r] = 0 THEN positions[r]
    ELSE [positions[r] EXCEPT ![CurDisp(r).a][CurDisp(r).i] = Saved(r)[CurDisp(r).a][CurDisp(r).i]]

\* sys.stdout.flush(); for a displacement, self.atoms.positions[a, i] = p[a, i]
Restore(r) ==
    /\ pc[r] = "restore"
    /\ positions' = [positions EXCEPT ![r] = Restored(r)]
    /\ forces' = [forces EXCEPT ![r] = Zero]
    /\ IF cur[r] = 0
       THEN pc' = [pc EXCEPT ![r] = "loop_init"] /\ cur' = cur
       ELSE pc' = [pc EXCEPT ![r] = "dis_check"] /\ cur' = [cur EXCEPT ![r] = @ + 1]
    /\ UNCHANGED anaVars
    /\ UNCHANGED cfgVars
    /\ UNCHANGED pureVars
    /\ UNCHANGED <<store, wcount, torn, populated, arrived,
                   nOps, p, startStore, startPos, startPop, trace>>

\* p = self.atoms.positions.copy()
LoopInit(r) ==
    /\ pc[r] = "loop_init"
    /\ p' = [p EXCEPT ![r] = positions[r]]
    /\ cur' = [cur EXCEPT ![r] = 1]
    /\ pc' = [pc EXCEPT ![r] = "dis_check"]
    /\ UNCHANGED anaVars
    /\ UNCHANGED cfgVars
    /\ UNCHANGED pureVars
    /\ UNCHANGED <<store, wcount, torn, populated, arrived,
                   nOps, positions, forces, startStore, startPos, startPop, trace>>

\* if isfile(filename): continue
DisCheck(r) ==
    /\ pc[r] = "dis_check"
    /\ cur[r] <= NDisp(indices, nfree)
    /\ LET present == IsFile(store, CurFile(r))
       IN /\ trace' = Log(r, <<"check", CurFile(r), store[CurFile(r)].st # "absent">>)
          /\ IF present
             THEN pc' = pc /\ cur' = [cur EXCEPT ![r] = @ + 1]
             ELSE pc' = [pc EXCEPT ![r] = AfterMiss] /\ cur' = cur
    /\ UNCHANGED anaVars
    /\ UNCHANGED cfgVars
    /\ UNCHANGED pureVars
    /\ UNCHANGED <<store, wcount, torn, populated, arrived,
                   nOps, positions, p, forces, startStore, startPos, startPop>>

\* the loops are exhausted: self.atoms.set_positions(p); run() returns
RunReturn(r) ==
    /\ pc[r] = "dis_check"
    /\ cur[r] > NDisp(indices, nfree)
    /\ positions' = [positions EXCEPT ![r] = Saved(r)]
    /\ pc' = [pc EXCEPT ![r] = "returned"]
    /\ populated' = TRUE
    /\ p' = [p EXCEPT ![r] = Zero]
    /\ UNCHANGED anaVars
    /\ UNCHANGED cfgVars
    /\ UNCHANGED pureVars
    /\ UNCHANGED <<store, wcount, torn, arrived, nOps, cur,
                   forces, startStore, startPos, startPop, trace>>

(* ------------------------------- clean() ------------------------------- *)
\* variant of clean(): every record of the directory is removed
CleanedAll(st, idx, nf) == {f \in AllFiles : IsFile(st, f)}

\* the files clean() removes: those of the object's keys that exist
Cleaned(st, idx, nf) == {f \in Required(idx, nf) : IsFile(st, f)}

Clean(r) ==
    /\ Resting(r)
    /\ nOps[r] < budget
    /\ nOps' = [nOps EXCEPT ![r] = @ + 1]
    /\ LET gone == Cleaned(store, indices, nfree)
       IN /\ store' = [f \in AllFiles |-> IF f \in gone THEN Absent ELSE store[f]]
          /\ wcount' = [f \in AllFiles |-> IF f \in gone THEN 0 ELSE wcount[f]]
          /\ torn' = torn \ gone
    /\ populated' = FALSE
    /\ pc' = [pc EXCEPT ![r] = "idle"]
    /\ via' = [via EXCEPT ![r] = "none"]
    /\ UNCHANGED <<method, direction, H, Hrows, hnu, ret>>
    /\ UNCHANGED cfgVars
    /\ UNCHANGED pureVars
    /\ UNCHANGED <<arrived, positions, p, cur, forces,
                   startStore, startPos, startPop, trace>>

(* ------------------------ read(), get_energies() ----------------------- *)
\* the body of read(method, direction); self.hnu stands for the spectrum of
\* the matrix it holds
ReadBody(r, m, d) ==
    LET exc == ReadExc(store, indices, nfree, m, d)
        h == IF exc = "ok" THEN Matrix(ReadH(store, indices, nfree, m, d)) ELSE H[r]
    IN /\ method' = [method EXCEPT ![r] = Lower(m)]
       /\ direction' = [direction EXCEPT ![r] = Lower(d)]
       /\ H' = [H EXCEPT ![r] = h]
       /\ Hrows' = [Hrows EXCEPT ![r] =
                      IF exc = "ok"
                      THEN Matrix(Rows(store, indices, nfree, Lower(m), Lower(d)))
                      ELSE @]
       /\ hnu' = [hnu EXCEPT ![r] = IF exc = "ok" THEN h ELSE @]
       /\ via' = [via EXCEPT ![r] = "read"]

Read(r, m, d) ==
    /\ Resting(r)
    /\ nOps[r] < budget
    /\ nOps' = [nOps EXCEPT ![r] = @ + 1]
    /\ ReadBody(r, m, d)
    /\ ret' = [ret EXCEPT ![r] =
                [exc |-> ReadExc(store, indices, nfree, m, d), val |-> NoMatrix]]
    /\ pc' = [pc EXCEPT ![r] = "idle"]
    /\ UNCHANGED cfgVars
    /\ UNCHANGED pureVars
    /\ UNCHANGED <<store, wcount, torn, populated, arrived,
                   positions, p, cur, forces, startStore, startPos, startPop,
                   trace>>

\* variant of the test: get_energies() always calls read()
StaleAlways(r, m, d) == TRUE

\* self.H is None or method.lower() != self.method or
\* direction.lower() != self.direction
Stale(r, m, d) ==
    \/ ~H[r].set
    \/ Lower(m) # method[r]
    \/ Lower(d) # direction[r]

\* get_energies(method, direction); get_frequencies() and the thermodynamic
\* getters reach the store only through it
GetEnergies(r, m, d) ==
    /\ Resting(r)
    /\ nOps[r] < budget
    /\ nOps' = [nOps EXCEPT ![r] = @ + 1]
    /\ IF Stale(r, m, d)
       THEN /\ ReadBody(r, m, d)
            /\ LET exc == ReadExc(store, indices, nfree, m, d)
               IN ret' = [ret EXCEPT ![r] =
                            [exc |-> exc, val |-> IF exc = "ok" THEN hnu'[r] ELSE NoMatrix]]
       ELSE /\ ret' = [ret EXCEPT ![r] = [exc |-> "ok", val |-> hnu[r]]]
            /\ via' = [via EXCEPT ![r] = "cache"]
            /\ UNCHANGED <<method, direction, H, Hrows, hnu>>
    /\ pc' = [pc EXCEPT ![r] = "idle"]
    /\ UNCHANGED cfgVars
    /\ UNCHANGED pureVars
    /\ UNCHANGED <<store, wcount, torn, populated, arrived,
                   positions, p, cur, forces, startStore, startPos, startPop,
                   trace>>

(* --------------------- termination of the job -------------------------- *)
\* the job is terminated while some rank is inside run(); files stay as they are
Kill ==
    /\ \E r \in Ranks : InRun(r)
    /\ torn' = torn \cup {CurFile(r) : r \in {q \in Ranks : pc[q] = "dump"}}
    /\ pc' = [r \in AllRanks |-> IF r < size THEN "dead" ELSE "off"]
    /\ arrived' = [r \in AllRanks |-> 0]
    /\ positions' = [r \in AllRanks |-> InitPos]
    /\ p' = [r \in AllRanks |-> Zero]
    /\ cur' = [r \in AllRanks |-> 0]
    /\ forces' = [r \in AllRanks |-> Zero]
    /\ startStore' = [r \in AllRanks |-> NoStore]
    /\ startPos' = [r \in AllRanks |-> Zero]
    /\ startPop' = [r \in AllRanks |-> FALSE]
    /\ trace' = [r \in AllRanks |-> <<>>]
    /\ method' = [r \in AllRanks |-> Unset]
    /\ direction' = [r \in AllRanks |-> Unset]
    /\ H' = [r \in AllRanks |-> NoMatrix]
    /\ Hrows' = [r \in AllRanks |-> NoMatrix]
    /\ hnu' = [r \in AllRanks |-> NoMatrix]
    /\ ret' = [r \in AllRanks |-> NoCall]
    /\ via' = [r \in AllRanks |-> "none"]
    /\ UNCHANGED cfgVars
    /\ UNCHANGED pureVars
    /\ UNCHANGED <<store, wcount, populated, nOps>>

\* the same script is started again on the directory the killed job left
Restart ==
    /\ \A r \in Ranks : pc[r] = "dead"
    /\ pc' = [r \in AllRanks |-> IF r < size THEN "new" ELSE "off"]
    /\ UNCHANGED anaVars
    /\ restarts' = restarts + 1
    /\ UNCHANGED <<size, nfreeArg, indices, budget>>
    /\ UNCHANGED pureVars
    /\ UNCHANGED <<store, wcount, torn, populated, arrived,
                   nOps, positions, p, cur, forces, startStore, startPos, startPop,
                   trace>>

Next ==
    \/ \E r \in Ranks : Construct(r)
    \/ \E r \in Ranks : RunCall(r)
    \/ \E r \in Ranks : EqCheck(r)
    \/ \E r \in Ranks : BarrierEnter(r)
    \/ \E r \in Ranks : BarrierLeave(r)
    \/ \E r \in Ranks : EvalOk(r)
    \/ \E r \in Ranks : EvalFail(r)
    \/ \E r \in Ranks : Open(r)
    \/ \E r \in Ranks : Dump(r)
    \/ \E r \in Ranks : Restore(r)
    \/ \E r \in Ranks : LoopInit(r)
    \/ \E r \in Ranks : DisCheck(r)
    \/ \E r \in Ranks : RunReturn(r)
    \/ \E r \in Ranks : Clean(r)
    \/ \E r \in Ranks, m \in Methods, d \in Directions : Read(r, m, d)
    \/ \E r \in Ranks, m \in Methods, d \in Directions : GetEnergies(r, m, d)
    \/ Kill
    \/ Restart

Spec == Init /\ [][Next]_vars

\* a job of several ranks on one directory
InitPar == size \in 2 .. MaxSize /\ budget = MaxParOps /\ InitCommon(MaxMissing - 1)

\* every rank runs the script vib = Vibrations(...); vib.run()
NextPar ==
    \/ \E r \in Ranks : Construct(r)
    \/ \E r \in Ranks : RunCall(r)
    \/ \E r \in Ranks : EqCheck(r)
    \/ \E r \in Ranks : BarrierEnter(r)
    \/ \E r \in Ranks : BarrierLeave(r)
    \/ \E r \in Ranks : EvalOk(r)
    \/ \E r \in Ranks : EvalFail(r)
    \/ \E r \in Ranks : Open(r)
    \/ \E r \in Ranks : Dump(r)
    \/ \E r \in Ranks : Restore(r)
    \/ \E r \in Ranks : LoopInit(r)
    \/ \E r \in Ranks : DisCheck(r)
    \/ \E r \in Ranks : RunReturn(r)

SpecPar == InitPar /\ [][NextPar]_vars

\* the steps of the script on rank r
RankStep(r) ==
    \/ Construct(r)
    \/ RunCall(r)
    \/ EqCheck(r)
    \/ BarrierEnter(r)
    \/ BarrierLeave(r)
    \/ EvalOk(r)
    \/ EvalFail(r)
    \/ Open(r)
    \/ Dump(r)
    \/ Restore(r)
    \/ LoopInit(r)
    \/ DisCheck(r)
    \/ RunReturn(r)

\* a job of several ranks, each of which keeps executing its script: the
\* lists of tracked atoms include those that name an atom twice
InitLock ==
    /\ size \in 2 .. MaxSize
    /\ budget = MaxParOps
    /\ nfreeArg \in {nf \in NfreeArgs : nf \in {2, 4}}
    /\ indices \in TrackedLists
    /\ store \in InitStores(indices, nfreeArg, MaxMissing - 1)
    /\ InitRest

SpecLock ==
    /\ InitLock
    /\ [][NextPar]_vars
    /\ \A r \in AllRanks : WF_vars(RankStep(r))

\* a serial job on an empty directory: vib.run(), then vib.read(), for lists
\* of up to MaxTracked tracked atoms
InitEnum ==
    /\ size = 1
    /\ budget = MaxOps
    /\ nfreeArg \in {nf \in NfreeArgs : nf \in {2, 4}}
    /\ indices \in TrackedLists
    /\ store = [f \in AllFiles |-> Absent]
    /\ InitRest

NextEnum ==
    \/ \E r \in Ranks : Construct(r)
    \/ \E r \in Ranks : RunCall(r)
    \/ \E r \in Ranks : EqCheck(r)
    \/ \E r \in Ranks : BarrierEnter(r)
    \/ \E r \in Ranks : BarrierLeave(r)
    \/ \E r \in Ranks : EvalOk(r)
    \/ \E r \in Ranks : EvalFail(r)
    \/ \E r \in Ranks : Open(r)
    \/ \E r \in Ranks : Dump(r)
    \/ \E r \in Ranks : Restore(r)
    \/ \E r \in Ranks : LoopInit(r)
    \/ \E r \in Ranks : DisCheck(r)
    \/ \E r \in Ranks : RunReturn(r)
    \/ \E r \in Ranks, m \in Methods, d \in Directions : Read(r, m, d)

SpecEnum == InitEnum /\ [][NextEnum]_vars

(* ------------- a directory shared with another object's records ------- *)
\* every atom in order: the default indices = range(len(atoms))
EveryAtom == [k \in 1 .. NAtoms |-> k - 1]

\* the directory after Vibrations(atoms, nfree=4).run() of an earlier script
\* under the same name, and that directory without the records of
\* Vibrations(indices=idx, nfree=nf)
CacheStores(idx, nf) ==
    LET all == FullStore(EveryAtom, 4)
    IN {all, [f \in AllFiles |-> IF f \in Required(idx, nf) THEN Absent ELSE all[f]]}

\* a serial script of run(), clean(), read() and get_energies() calls
InitCache ==
    /\ size = 1
    /\ budget = MaxCacheOps
    /\ nfreeArg \in {nf \in NfreeArgs : nf \in {2, 4}}
    /\ indices \in IndexLists
    /\ store \in CacheStores(indices, nfreeArg)
    /\ InitRest

NextCache ==
    \/ \E r \in Ranks : Construct(r)
    \/ \E r \in Ranks : RunCall(r)
    \/ \E r \in Ranks : EqCheck(r)
    \/ \E r \in Ranks : BarrierEnter(r)
    \/ \E r \in Ranks : BarrierLeave(r)
    \/ \E r \in Ranks : EvalOk(r)
    \/ \E r \in Ranks : EvalFail(r)
    \/ \E r \in Ranks : Open(r)
    \/ \E r \in Ranks : Dump(r)
    \/ \E r \in Ranks : Restore(r)
    \/ \E r \in Ranks : LoopInit(r)
    \/ \E r \in Ranks : DisCheck(r)
    \/ \E r \in Ranks : RunReturn(r)
    \/ \E r \in Ranks : Clean(r)
    \/ \E r \in Ranks, m \in Methods, d \in Directions : Read(r, m, d)
    \/ \E r \in Ranks, m \in Methods, d \in Directions : GetEnergies(r, m, d)

SpecCache == InitCache /\ [][NextCache]_vars

(* ------------------- analysis of a directory left alone ---------------- *)
\* a second force field for the records of a directory: forces that couple the
\* axes, are not linear in the positions and derive from no energy
Skew(pos) ==
    [b \in Atoms |-> [j \in Axes |->
        (b + 1) * pos[b][(j + 1) % 3] - pos[b][j] * pos[(b + 1) % NAtoms][j]]]

ForceFields == {"springs", "skew"}

\* self.atoms.get_forces() of the calculator that filled the directory
FieldForces(k, pos) == IF k = "springs" THEN Oracle(pos) ELSE Skew(pos)

\* the record an uninterrupted run with that calculator left for step n
FieldRecord(k, idx, nf, n) ==
    IF n = 0 THEN Full(FieldForces(k, InitPos))
    ELSE Full(FieldForces(k, Displace(InitPos, InitPos, Disp(idx, nf, n))))

FieldStore(k, idx, nf) ==
    [f \in AllFiles |->
        IF f \in Required(idx, nf)
        THEN FieldRecord(k, idx, nf, CHOOSE n \in 0 .. NDisp(idx, nf) : StepFile(idx, nf, n) = f)
        ELSE Absent]

\* directories handed to the analysis: complete, or with up to missing
\* records removed by hand
AnaStores(idx, nf, missing) ==
    {[f \in AllFiles |-> IF f \in M THEN Absent ELSE FieldStore(k, idx, nf)[f]] :
        k \in ForceFields, M \in SubsetsUpTo(Required(idx, nf), missing)}

\* method and direction arguments of the analysis calls, valid and not
AnaMethods == {"standard", "Frederiksen", "bogus"}
AnaDirections == {"central", "forward", "backward", "sideways"}

InitAna ==
    /\ size = 1
    /\ budget = MaxAnaOps
    /\ nfreeArg \in {nf \in NfreeArgs : nf \in {2, 4}}
    /\ indices \in TrackedLists
    /\ store \in AnaStores(indices, nfreeArg, MaxMissing - 1)
    /\ InitRest

NextAna ==
    \/ \E r \in Ranks : Construct(r)
    \/ \E r \in Ranks, m \in AnaMethods, d \in AnaDirections : Read(r, m, d)
    \/ \E r \in Ranks, m \in AnaMethods, d \in AnaDirections : GetEnergies(r, m, d)

SpecAna == InitAna /\ [][NextAna]_vars

\* read() with the names spelled in lower case and capitalised
CaseMethods == {"standard", "Standard", "frederiksen", "Frederiksen"}
CaseDirections == {"central", "Central", "forward", "Forward", "backward", "Backward"}

InitCase ==
    /\ size = 1
    /\ budget = MaxOps
    /\ nfreeArg \in {nf \in NfreeArgs : nf \in {2, 4}}
    /\ indices \in IndexLists
    /\ store \in AnaStores(indices, nfreeArg, MaxMissing - 1)
    /\ InitRest

NextCase ==
    \/ \E r \in Ranks : Construct(r)
    \/ \E r \in Ranks, m \in CaseMethods, d \in CaseDirections : Read(r, m, d)

SpecCase == InitCase /\ [][NextCase]_vars

(* ------------- spectrum, thermodynamics, modes: pure functions --------- *)
\* every variable of the job in the state of a serial job never started
InitIdle ==
    /\ size = 1
    /\ budget = 0
    /\ nfreeArg = 2
    /\ store = [f \in AllFiles |-> Absent]
    /\ InitJob

jobVars == <<size, nfreeArg, indices, store, wcount, torn, populated, arrived, nOps,
             pc, positions, p, cur, forces, startStore, startPos, startPop, trace,
             method, direction, H, Hrows, hnu, ret, via, restarts, budget>>

\* sequences of length 1 .. n over S
SeqsUpTo(S, n) == UNION {[1 .. k -> S] : k \in 1 .. n}

\* np.sqrt of a square
Root(x) == CHOOSE k \in 0 .. x : k * k = x

\* omega2 of np.linalg.eigh: real numbers of either sign, here signed squares
Omega2Values == {k * k : k \in 0 .. MaxRoot} \cup {0 - k * k : k \in 1 .. MaxRoot}
Omega2Lists == SeqsUpTo(Omega2Values, MaxModes)

\* the conversion factor s of read(), taken as the unit of energy
EnergyUnit == 1

\* variant of the root: the root of the magnitude, the sign dropped
ComplexSqrtAbs(x) == [re |-> Root(IF x < 0 THEN 0 - x ELSE x), im |-> 0]

\* x.astype(complex)**0.5 for one real x: the principal complex square root
ComplexSqrt(x) ==
    IF x < 0 THEN [re |-> 0, im |-> Root(0 - x)]
    ELSE [re |-> Root(x), im |-> 0]

\* self.hnu = s * omega2.astype(complex)**0.5
HnuOf(omega2) ==
    [n \in DOMAIN omega2 |->
        [re |-> EnergyUnit * ComplexSqrt(omega2[n]).re,
         im |-> EnergyUnit * ComplexSqrt(omega2[n]).im]]

SpectrumCalls == {[fn |-> "read", omega2 |-> w] : w \in Omega2Lists}

\* the end of read(): the eigenvalues become self.hnu
ReadTail ==
    /\ call.fn = "read"
    /\ result = NoPure
    /\ result' = [fn |-> "read", exc |-> "ok", hnu |-> HnuOf(call.omega2)]
    /\ UNCHANGED call
    /\ UNCHANGED jobVars

\* s of get_frequencies(): frequency units (cm^-1) per unit of energy
FreqPerEnergy == 5

\* get_frequencies(): s * self.get_energies(method, direction)
Frequencies(e) ==
    [n \in DOMAIN e |-> [re |-> FreqPerEnergy * e[n].re, im |-> FreqPerEnergy * e[n].im]]

\* freq=None
NoFreq == <<>>

\* entries of a frequency array handed in as freq, and the arrays
FreqEntries ==
    {[re |-> 5, im |-> 0], [re |-> 10, im |-> 0], [re |-> 1877, im |-> 0],
     [re |-> 0, im |-> 40], [re |-> 1877, im |-> 1]}
FreqLists == SeqsUpTo(FreqEntries, MaxModes)

\* threshold arguments: the default 10 and one above it
Thresholds == {10, 15}

\* the zero-point energy is held multiplied by ZpeScale
ZpeScale == 2 * FreqPerEnergy

\* ndarray.real.sum()
RECURSIVE SumRe(_)
SumRe(fs) == IF fs = <<>> THEN 0 ELSE Head(fs).re + SumRe(Tail(fs))

\* get_zero_point_energy(freq): 0.5 * self.hnu.real.sum(), or
\* 0.5 * freq.real.sum() / s, times ZpeScale
ZeroPoint(e, freq) ==
    IF freq = NoFreq THEN FreqPerEnergy * SumRe(e) ELSE SumRe(freq)

\* variant of the test: an entry at the threshold is left out
IncludedAbove(f, threshold) == f.im = 0 /\ f.re > threshold

\* if f.imag == 0 and f.real >= threshold
Included(f, threshold) == f.im = 0 /\ f.re >= threshold

\* the term a frequency adds to the enthalpy, units._k / units._e * x /
\* (np.exp(x / T) - 1), and to the entropy: positive numbers that fall as the
\* frequency rises, here integers
HTerm(fr) == 1 + 4000 \div (fr + 1)
STerm(fr) == 2 + 9000 \div (fr + 1)

\* the loops of get_enthalpy() and get_entropy()
RECURSIVE EnthalpySum(_, _)
EnthalpySum(fs, threshold) ==
    IF fs = <<>> THEN 0
    ELSE (IF Included(Head(fs), threshold) THEN HTerm(Head(fs).re) ELSE 0)
             + EnthalpySum(Tail(fs), threshold)

RECURSIVE EntropySum(_, _)
EntropySum(fs, threshold) ==
    IF fs = <<>> THEN 0
    ELSE (IF Included(Head(fs), threshold) THEN STerm(Head(fs).re) ELSE 0)
             + EntropySum(Tail(fs), threshold)

\* if freq == None: freq = self.get_frequencies(method=method, direction=direction)
FreqUsed(c) == IF c.freq = NoFreq THEN Frequencies(HnuOf(c.omega2)) ELSE c.freq

\* calls of a thermodynamic getter: on the spectrum of the object, or on an
\* array handed in
ThermoCalls(fn) ==
    {[fn |-> fn, omega2 |-> w, freq |-> NoFreq, threshold |-> t] :
        w \in Omega2Lists, t \in Thresholds}
    \cup {[fn |-> fn, omega2 |-> <<0>>, freq |-> f, threshold |-> t] :
        f \in FreqLists, t \in Thresholds}

GetZeroPointEnergy ==
    /\ call.fn = "zpe"
    /\ result = NoPure
    /\ result' = [fn |-> "zpe", exc |-> "ok",
                  val |-> ZeroPoint(HnuOf(call.omega2), call.freq)]
    /\ UNCHANGED call
    /\ UNCHANGED jobVars

GetEnthalpy ==
    /\ call.fn = "enthalpy"
    /\ result = NoPure
    /\ result' = [fn |-> "enthalpy", exc |-> "ok",
                  val |-> EnthalpySum(FreqUsed(call), call.threshold)]
    /\ UNCHANGED call
    /\ UNCHANGED jobVars

GetEntropy ==
    /\ call.fn = "entropy"
    /\ result = NoPure
    /\ result' = [fn |-> "entropy", exc |-> "ok",
                  val |-> EntropySum(FreqUsed(call), call.threshold)]
    /\ UNCHANGED call
    /\ UNCHANGED jobVars

\* atoms.get_masses(): masses whose roots are whole, one per atom
Masses == {1, 4}
MassLists == [Atoms -> Masses]

\* self.im is held multiplied by ImScale
ImScale == 2

\* variant of the weights: every mass taken as 1
ImUnweighted(ms, idx) == [c \in 1 .. 3 * Len(idx) |-> ImScale]

\* self.im = np.repeat(m[self.indices]**-0.5, 3), times ImScale
Im(ms, idx) == [c \in 1 .. 3 * Len(idx) |-> ImScale \div Root(ms[idx[((c - 1) \div 3) + 1]])]

\* self.modes of np.linalg.eigh: a square array of 3N rows, here one of two
\* arrays of distinct numbers of both signs
ModeSeeds == {1, 2}
Modes(seed, idx) ==
    [n \in 1 .. 3 * Len(idx) |-> [c \in 1 .. 3 * Len(idx) |-> seed * (10 * n + c) - 40]]

\* self.modes[n]: Python takes a negative n from the end
ModeRow(M, n) == IF n < 0 THEN M[Len(M) + n + 1] ELSE M[n + 1]
ModeIndices(idx) == (0 - 3 * Len(idx)) .. (3 * Len(idx) - 1)

\* mode = np.zeros((len(self.atoms), 3));
\* mode[self.indices] = (self.modes[n] * self.im).reshape((-1, 3)):
\* row k goes to atom indices[k], a later row replacing an earlier one
ModeOf(idx, M, im, n) ==
    [a \in Atoms |-> [j \in Axes |->
        IF \A k \in 1 .. Len(idx) : idx[k] # a THEN 0
        ELSE LET k == CHOOSE l \in 1 .. Len(idx) :
                          idx[l] = a /\ \A q \in 1 .. Len(idx) : idx[q] = a => q <= l
                 c == 3 * (k - 1) + j + 1
             IN ModeRow(M, n)[c] * im[c]]]

ModeCalls(idx) ==
    {[fn |-> "get_mode", masses |-> ms, seed |-> sd, n |-> n] :
        ms \in MassLists, sd \in ModeSeeds, n \in ModeIndices(idx)}

\* get_mode(n), times ImScale
GetMode ==
    /\ call.fn = "get_mode"
    /\ result = NoPure
    /\ result' = [fn |-> "get_mode", exc |-> "ok",
                  val |-> ModeOf(indices, Modes(call.seed, indices),
                                 Im(call.masses, indices), call.n)]
    /\ UNCHANGED call
    /\ UNCHANGED jobVars

\* an object whose read() has come to the eigenvalues, or whose spectrum or
\* modes are asked for
InitSpectrum ==
    /\ InitIdle
    /\ result = NoPure
    /\ \/ /\ indices = <<0>>
          /\ call \in SpectrumCalls \cup ThermoCalls("zpe")
                       \cup ThermoCalls("enthalpy") \cup ThermoCalls("entropy")
       \/ /\ indices \in TrackedLists
          /\ call \in ModeCalls(indices)

NextSpectrum ==
    \/ ReadTail
    \/ GetZeroPointEnergy
    \/ GetEnthalpy
    \/ GetEntropy
    \/ GetMode

SpecSpectrum == InitSpectrum /\ [][NextSpectrum]_vars

(* ---------- calculators/siesta/base_siesta.py: species numbering ------- *)
\* chemical symbols and tags of the atoms; atoms.get_tags() is 0 by default
Symbols == {"H", "O"}
AtomTags == 0 .. 2

\* tag=None of a Specie
NoTag == -1
SpecieTags == {NoTag, 1, 2}

\* Specie(symbol, tag): the basis set, pseudopotential and ghost entries do
\* not enter the numbering
Specie(symbol, tag) == [symbol |-> symbol, tag |-> tag]

\* the atoms objects and species arguments species() is applied to
SiestaAtoms == SeqsUpTo([symbol : Symbols, tag : AtomTags], MaxSiestaAtoms)
SpeciesArgs == {<<>>} \cup SeqsUpTo([symbol : Symbols, tag : SpecieTags], MaxSpecies)

\* default_species after the loop over the symbols: the untagged species of
\* the argument, then one default species for each symbol without one
RECURSIVE DefaultSpecies(_, _)
DefaultSpecies(defaults, symbols) ==
    IF symbols = <<>> THEN defaults
    ELSE IF \E k \in 1 .. Len(defaults) : defaults[k].symbol = Head(symbols)
         THEN DefaultSpecies(defaults, Tail(symbols))
         ELSE DefaultSpecies(Append(defaults, Specie(Head(symbols), NoTag)), Tail(symbols))

\* species_numbers after the loop over default_species: the loop counts from
\* 1 and a later species of the same symbol overwrites an earlier one
DefaultNumbers(defaults, atoms) ==
    [n \in DOMAIN atoms |->
        LET hits == {k \in 1 .. Len(defaults) : defaults[k].symbol = atoms[n].symbol}
        IN IF hits = {} THEN 0 ELSE CHOOSE k \in hits : \A l \in hits : l <= k]

\* the loop over non_default_species: a tagged species gets the number i,
\* and i is incremented, only if some atom has its tag and symbol
RECURSIVE TaggedNumbers(_, _, _, _)
TaggedNumbers(tagged, atoms, numbers, i) ==
    IF tagged = <<>> THEN numbers
    ELSE LET specie == Head(tagged)
             mask == {n \in DOMAIN atoms :
                         atoms[n].tag = specie.tag /\ atoms[n].symbol = specie.symbol}
         IN IF mask # {}
            THEN TaggedNumbers(Tail(tagged), atoms,
                               [n \in DOMAIN atoms |-> IF n \in mask THEN i ELSE numbers[n]],
                               i + 1)
            ELSE TaggedNumbers(Tail(tagged), atoms, numbers, i)

\* species(atoms): (all_species, species_numbers), or the assertion of line
\* 168 fails
SpeciesOf(atoms, species) ==
    LET symbols == [n \in DOMAIN atoms |-> atoms[n].symbol]
        defaults == DefaultSpecies(SelectSeq(species, LAMBDA sp : sp.tag = NoTag), symbols)
        tagged == SelectSeq(species, LAMBDA sp : sp.tag # NoTag)
    IN IF Len(defaults) # Cardinality(Range(symbols))
       THEN [exc |-> "AssertionError", all |-> <<>>, numbers |-> <<>>]
       ELSE [exc |-> "ok",
             all |-> defaults \o tagged,
             numbers |-> TaggedNumbers(tagged, atoms, DefaultNumbers(defaults, atoms),
                                       Len(defaults) + 1)]

\* the ChemicalSpecieslabel entries of _write_species, with every
\* pseudopotential file in place: entry k carries the number k and the symbol
\* of the k-th species
ChemicalLabels(all) ==
    [k \in 1 .. Len(all) |-> [number |-> k, symbol |-> all[k].symbol, tag |-> all[k].tag]]

\* the species column of the AtomicCoordinatesAndAtomicSpecies block
CoordinateNumbers(atoms, numbers) == [n \in DOMAIN atoms |-> numbers[n]]

SiestaCalls ==
    {[fn |-> f, atoms |-> a, species |-> sp] :
        f \in {"species", "write_species", "write_coordinates"},
        a \in SiestaAtoms, sp \in SpeciesArgs}

\* species(atoms)
Species ==
    /\ call.fn = "species"
    /\ result = NoPure
    /\ LET s == SpeciesOf(call.atoms, call.species)
       IN result' = [fn |-> "species", exc |-> s.exc, all |-> s.all, numbers |-> s.numbers]
    /\ UNCHANGED call
    /\ UNCHANGED jobVars

\* _write_species(f, atoms)
WriteSpecies ==
    /\ call.fn = "write_species"
    /\ result = NoPure
    /\ LET s == SpeciesOf(call.atoms, call.species)
       IN result' = [fn |-> "write_species", exc |-> s.exc,
                     labels |-> ChemicalLabels(s.all)]
    /\ UNCHANGED call
    /\ UNCHANGED jobVars

\* _write_atomic_coordinates(f, atoms)
WriteAtomicCoordinates ==
    /\ call.fn = "write_coordinates"
    /\ result = NoPure
    /\ LET s == SpeciesOf(call.atoms, call.species)
       IN result' = [fn |-> "write_coordinates", exc |-> s.exc,
                     lines |-> IF s.exc = "ok"
                               THEN CoordinateNumbers(call.atoms, s.numbers) ELSE <<>>]
    /\ UNCHANGED call
    /\ UNCHANGED jobVars

InitSiesta ==
    /\ InitIdle
    /\ indices = <<0>>
    /\ call \in SiestaCalls
    /\ result = NoPure

NextSiesta ==
    \/ Species
    \/ WriteSpecies
    \/ WriteAtomicCoordinates

SpecSiesta == InitSiesta /\ [][NextSiesta]_vars

(* ------------------------------ properties ----------------------------- *)
\* the files of the events of kind ev in a trace, and how many there are
EvFiles(t, ev) == {t[n][2] : n \in {k \in 1 .. Len(t) : t[k][1] = ev}}
EvCount(t, ev) == Cardinality({k \in 1 .. Len(t) : t[k][1] = ev})

AbsentAtStart(r) == {f \in Req : startStore[r][f].st = "absent"}

\* C1: a run() called after a run() has returned, with no clean() in between,
\* calls neither the force oracle nor barrier(), writes no file, and leaves the
\* store and the positions as they were when it was called.
C1_SecondRunNoOp ==
    \A r \in Ranks :
        (pc[r] = "returned" /\ startPop[r]) =>
            /\ EvCount(trace[r], "oracle") = 0
            /\ EvCount(trace[r], "raise") = 0
            /\ EvCount(trace[r], "barrier") = 0
            /\ EvCount(trace[r], "write") = 0
            /\ store = startStore[r]
            /\ positions[r] = startPos[r]

C1_Witness ==
    \E r \in Ranks :
        /\ pc[r] = "returned" /\ startPop[r] /\ nOps[r] = 2
        /\ EvCount(trace[r], "check") = 1 + NDisp(indices, nfree)
        /\ \E f \in Req : wcount[f] = 1

\* C2: a run() that returns has called the force oracle exactly once for every
\* required file that was absent when it was called, and for no file that
\* existed then, complete or empty.
C2_Resume ==
    \A r \in Ranks :
        pc[r] = "returned" =>
            /\ EvFiles(trace[r], "oracle") = AbsentAtStart(r)
            /\ EvCount(trace[r], "oracle") = Cardinality(AbsentAtStart(r))
            /\ EvCount(trace[r], "raise") = 0

\* three of the six displacement records of one atom exist at the call, and
\* the run evaluates the other three
C2_Witness ==
    \E r \in Ranks :
        /\ pc[r] = "returned"
        /\ nfree = 2 /\ Len(indices) = 1
        /\ startStore[r][EqFile].st # "absent"
        /\ Cardinality(AbsentAtStart(r)) = 3
        /\ EvCount(trace[r], "oracle") = 3

\* C3: when run() returns, the positions are those held when it was called.
C3_RestoredOnReturn ==
    \A r \in Ranks : pc[r] = "returned" => positions[r] = startPos[r]

C3_Witness ==
    \E r \in Ranks :
        /\ pc[r] = "returned"
        /\ EvCount(trace[r], "oracle") >= 2
        /\ startPos[r] # InitPos

\* C4: when the force oracle has failed during run(), the positions after the
\* error has left run() are those held when run() was called.
C4_RestoredOnFailure ==
    \A r \in Ranks : pc[r] = "raised" => positions[r] = startPos[r]

\* C5: between two clean() calls a file is opened for writing at most once; a
\* file that exists is left as it is by every step of run(), read() and
\* get_energies(), except that the writer that has just created it fills it.
C5_Untouched(f) ==
    \/ store'[f] = store[f]
    \/ /\ store[f].st = "absent"
       /\ store'[f] = Empty
       /\ wcount[f] = 0
    \/ /\ store[f] = Empty
       /\ store'[f].st = "full"
       /\ f \notin torn
       /\ \E r \in Ranks : pc[r] = "dump" /\ CurFile(r) = f /\ pc'[r] = "restore"

C5_WriteOnce ==
    [][ /\ \A f \in AllFiles : wcount'[f] <= 1
        /\ (\E r \in Ranks : Clean(r)) \/ (\A f \in AllFiles : C5_Untouched(f)) ]_vars

\* a record written by an earlier run() is found again by a later run()
C5_Witness ==
    \E r \in Ranks, f \in Req :
        /\ wcount[f] = 1
        /\ store[f].st = "full"
        /\ \E n \in 1 .. Len(trace[r]) : trace[r][n] = <<"check", f, TRUE>>

\* C6 as claimed: when a run() of a job started again after a kill returns,
\* every required file holds a complete force record.
C6_AllCompleteAfterRestart ==
    \A r \in Ranks :
        (restarts > 0 /\ pc[r] = "returned") =>
            \A f \in Req : store[f].st = "full"

\* C6 as amended: when a run() of a job started again after a kill returns, it
\* has evaluated exactly the files that were absent, every required file
\* exists, and the only files without a complete record are those whose write
\* was cut between open() and dump().
C6_CompleteButTorn ==
    \A r \in Ranks :
        (restarts > 0 /\ pc[r] = "returned") =>
            /\ EvFiles(trace[r], "oracle") = AbsentAtStart(r)
            /\ \A f \in Req :
                /\ store[f].st # "absent"
                /\ store[f].st = "empty" => f \in torn

C6_Witness ==
    \E r \in Ranks :
        /\ restarts > 0 /\ pc[r] = "returned"
        /\ torn \cap Req # {}
        /\ EvCount(trace[r], "oracle") > 0

\* C7: when the force oracle has failed on a file, run() has ended at once: the
\* failure is the last event and the only oracle call for that file, the file
\* does not exist, every file evaluated before it holds its complete record,
\* and every file that existed at the call is unchanged.
C7_FailureFatal ==
    \A r \in Ranks :
        pc[r] = "raised" =>
            LET t == trace[r]
                f == t[Len(t)][2]
            IN /\ Len(t) >= 3
               /\ t[Len(t)] = <<"raise", f, FALSE>>
               /\ EvCount(t, "raise") = 1
               /\ f \notin EvFiles(t, "oracle")
               /\ f \notin EvFiles(t, "write")
               /\ store[f].st = "absent"
               /\ EvCount(t, "barrier") = EvCount(t, "oracle") + 1
               /\ EvCount(t, "write") = EvCount(t, "oracle")
               /\ \A g \in EvFiles(t, "oracle") : store[g].st = "full"
               /\ \A g \in AllFiles :
                     startStore[r][g].st # "absent" => store[g] = startStore[r][g]

C7_Witness ==
    \E r \in Ranks :
        /\ pc[r] = "raised"
        /\ EvCount(trace[r], "write") >= 2

\* C8: in every rank's run(), each write of a file comes right after the
\* oracle call for it, which comes right after the one barrier() for it, which
\* comes right after the check that found it absent; no barrier() follows a
\* check that found the file.
C8_BarrierBeforeWrite ==
    \A r \in Ranks :
        LET t == trace[r]
        IN \A n \in 1 .. Len(t) :
            /\ t[n][1] = "write" =>
                  /\ n >= 4
                  /\ t[n - 1] = <<"oracle", t[n][2], FALSE>>
                  /\ t[n - 2] = <<"barrier", t[n][2], FALSE>>
                  /\ t[n - 3] = <<"check", t[n][2], FALSE>>
            /\ t[n][1] = "barrier" =>
                  /\ n >= 2
                  /\ t[n - 1] = <<"check", t[n][2], FALSE>>
            /\ (t[n] = <<"check", t[n][2], TRUE>> /\ n < Len(t)) =>
                  t[n + 1][1] = "check"

C8_Witness ==
    \E r \in Ranks :
        /\ size > 1
        /\ EvCount(trace[r], "write") >= 1
        /\ \E n \in 1 .. Len(trace[r]) : trace[r][n][1] = "check" /\ trace[r][n][3]

\* C9: among the ranks of a job only rank 0 opens or writes a file, a file is
\* opened for writing at most once, and no two ranks are writing one file at
\* the same time.
C9_SingleWriter ==
    /\ \A r \in Ranks :
          r # 0 => /\ pc[r] \notin {"open", "dump"}
                   /\ EvCount(trace[r], "write") = 0
    /\ \A f \in AllFiles : wcount[f] <= 1
    /\ \A r, q \in Ranks :
          (r # q /\ pc[r] = "dump" /\ pc[q] = "dump") => CurFile(r) # CurFile(q)

\* two ranks have evaluated the same file and rank 0 alone has written it
C9_Witness ==
    /\ size > 1
    /\ \E f \in Req :
          /\ f \in EvFiles(trace[0], "write")
          /\ f \in EvFiles(trace[1], "oracle")
          /\ store[f].st = "full"

\* C10: with nfree outside {2, 4} the constructor fails: no rank gets past it,
\* none has called the oracle, barrier() or any method, and no file has been
\* opened; with nfree 2 or 4 the constructor does not fail.
C10_SchemeValidation ==
    /\ nfreeArg \notin {2, 4} =>
          /\ \A r \in Ranks : /\ pc[r] \in {"new", "ctor_failed"}
                              /\ trace[r] = <<>>
                              /\ nOps[r] = 0
                              /\ arrived[r] = 0
                              /\ ret[r] = NoCall
          /\ \A f \in AllFiles : wcount[f] = 0
          /\ store = FullStore(indices, 4)
    /\ nfreeArg \in {2, 4} => \A r \in Ranks : pc[r] # "ctor_failed"

C10_Witness ==
    /\ nfreeArg = 3
    /\ pc[0] = "ctor_failed"
    /\ \E f \in AllFiles : store[f].st = "full"

\* the steps of one coordinate in the claimed order, in units of delta
C11_Steps(nf) == IF nf = 2 THEN <<-1, 1>> ELSE <<-1, -2, 1, 2>>

\* the claimed visiting order: the equilibrium key, then atom by atom in the
\* order of the list, axis by axis, step by step
C11_Expected(idx, nf) ==
    <<[file |-> EqFile, a |-> 0, i |-> 0, step |-> 0]>> \o
    Flatten([k \in 1 .. Len(idx) |->
        Flatten([x \in 1 .. 3 |->
            [n \in 1 .. Len(C11_Steps(nf)) |->
                LET st == C11_Steps(nf)[n]
                IN [file |-> FileName(idx[k], x - 1, IF st < 0 THEN -1 ELSE 1,
                                      IF st < 0 THEN 0 - st ELSE st),
                    a |-> idx[k], i |-> x - 1, step |-> st]]])])

\* the files run() has called the oracle for, in the order of the calls
C11_Visited(t) ==
    LET ev == SelectSeq(t, LAMBDA e : e[1] \in {"oracle", "raise"})
    IN [n \in 1 .. Len(ev) |-> ev[n][2]]

C11_NoDuplicates(idx) == \A k, l \in 1 .. Len(idx) : idx[k] = idx[l] => k = l

C11_FromEmpty(r) ==
    /\ InRun(r) \/ pc[r] \in {"returned", "raised"}
    /\ AbsentAtStart(r) = Req
    /\ C11_NoDuplicates(indices)

\* C11: a run() called on an empty store with a duplicate-free list of N
\* tracked atoms calls the oracle for 1 + 3*nfree*N pairwise distinct keys, in
\* this order: the equilibrium key at the positions of the call, then for each
\* atom in the order of the list and each axis x, y, z the steps -1 (-2) and
\* +1 (+2), each at the positions of the call with that one coordinate moved
\* by step*delta.
C11_Enumeration ==
    \A r \in Ranks :
        C11_FromEmpty(r) =>
            LET exp == C11_Expected(indices, nfree)
                vis == C11_Visited(trace[r])
                last == exp[Len(vis)]
            IN /\ Len(exp) = 1 + 3 * nfree * Len(indices)
               /\ \A k, l \in 1 .. Len(exp) : exp[k].file = exp[l].file => k = l
               /\ Len(vis) <= Len(exp)
               /\ \A k \in 1 .. Len(vis) : vis[k] = exp[k].file
               /\ pc[r] = "returned" => Len(vis) = Len(exp)
               /\ pc[r] \in {"open", "dump", "restore"} =>
                     positions[r] =
                        [startPos[r] EXCEPT ![last.a][last.i] = @ + last.step * delta]

\* two atoms tracked in the order 1, 0 with nfree=4: 25 keys
C11_Witness ==
    \E r \in Ranks :
        /\ C11_FromEmpty(r)
        /\ pc[r] = "returned"
        /\ nfree = 4
        /\ indices = <<1, 0>>
        /\ Len(C11_Visited(trace[r])) = 25
        /\ \A f \in Req : store[f].st = "full"

\* the records the difference formula of a direction takes its forces from
C12_Needed(idx, nf, ld) ==
    (IF ld = "central" THEN {} ELSE {EqFile}) \cup
    {FileName(idx[k], i, sg, n) :
        k \in 1 .. Len(idx), i \in Axes,
        sg \in (CASE ld = "central" -> {-1, 1} [] ld = "forward" -> {1} [] OTHER -> {-1}),
        n \in 1 .. (IF ld = "central" THEN PerSign(nf) ELSE 1)}

\* C12: a read() or get_energies() call with a valid direction does not end
\* without an error while a record that this direction needs is absent; this
\* holds for every call, whatever was called before it.
C12_MissingFatal ==
    \A r \in Ranks :
        (ret[r].exc = "ok" /\ direction[r] \in {"central", "forward", "backward"}) =>
            \A f \in C12_Needed(indices, nfree, direction[r]) : store[f].st # "absent"

\* C13: a read() or get_energies() call does not end without an error when
\* its method, lower-cased, is not standard or frederiksen or its direction,
\* lower-cased, is not central, forward or backward; this holds for every
\* call, whatever was called before it.
C13_InvalidFatal ==
    \A r \in Ranks :
        ret[r].exc = "ok" =>
            /\ method[r] \in {"standard", "frederiksen"}
            /\ direction[r] \in {"central", "forward", "backward"}

\* the last analysis call of rank r was a read() and it ended without an error
ReadDone(r) == ret[r] = [exc |-> "ok", val |-> NoMatrix]

\* the stored force record of coordinate (a, i) displaced by step*delta
StoredF(a, i, step) ==
    IF step = 0 THEN store[EqFile].data
    ELSE store[FileName(a, i, IF step < 0 THEN -1 ELSE 1,
                        IF step < 0 THEN 0 - step ELSE step)].data

\* the row of the k-th tracked atom and axis i that read() filled holds the
\* array V, restricted to the tracked atoms and flattened
RowIs(r, k, i, V) ==
    Hrows[r].m[3 * (k - 1) + i + 1] =
        [c \in 1 .. 3 * Len(indices) |-> V[indices[((c - 1) \div 3) + 1]][(c - 1) % 3]]

Coordinates == {<<k, i>> : k \in 1 .. Len(indices), i \in Axes}

\* the 2-point central difference F(-delta) - F(+delta), times the integer c
C14_Diff(k, i, c) ==
    [b \in Atoms |-> [j \in Axes |->
        c * (StoredF(indices[k], i, -1)[b][j] - StoredF(indices[k], i, 1)[b][j])]]

C14_Case(r) ==
    /\ ReadDone(r)
    /\ nfree = 2 /\ method[r] = "standard" /\ direction[r] = "central"

\* C14 as claimed: after read('standard', 'central') with nfree=2 the row of
\* (a, i) before symmetrization is 1/2 * (F(-delta) - F(+delta)) / delta, that
\* is HScale/2 * (F(-delta) - F(+delta)) in units of 1 / (HScale * delta).
C14_RowHalf ==
    \A r \in Ranks :
        C14_Case(r) =>
            \A x \in Coordinates : RowIs(r, x[1], x[2], C14_Diff(x[1], x[2], HScale \div 2))

\* C14 as amended: that row is 1/4 * (F(-delta) - F(+delta)) / delta, that is
\* HScale/4 * (F(-delta) - F(+delta)) in units of 1 / (HScale * delta).
C14_RowQuarter ==
    \A r \in Ranks :
        C14_Case(r) =>
            \A x \in Coordinates : RowIs(r, x[1], x[2], C14_Diff(x[1], x[2], HScale \div 4))

\* two tracked atoms, records of forces that are not linear, a row that is not 0
C14_Witness ==
    \E r \in Ranks :
        /\ C14_Case(r)
        /\ Len(indices) = 2
        /\ store[EqFile].data = Skew(InitPos)
        /\ \E x \in Coordinates, c \in 1 .. 3 * Len(indices) :
              Hrows[r].m[3 * (x[1] - 1) + x[2] + 1][c] # 0

\* the 4-point central difference -F(-2d) + 8F(-d) - 8F(+d) + F(+2d), times c
C15_Diff(k, i, c) ==
    [b \in Atoms |-> [j \in Axes |->
        c * ((0 - StoredF(indices[k], i, -2)[b][j]) + 8 * StoredF(indices[k], i, -1)[b][j]
                - 8 * StoredF(indices[k], i, 1)[b][j] + StoredF(indices[k], i, 2)[b][j])]]

C15_Case(r) ==
    /\ ReadDone(r)
    /\ nfree = 4 /\ method[r] = "standard" /\ direction[r] = "central"

\* C15 as claimed: after read('standard', 'central') with nfree=4 the row of
\* (a, i) before symmetrization is the 4-point difference divided by
\* 12*delta, that is HScale/12 times it in units of 1 / (HScale * delta).
C15_RowTwelfth ==
    \A r \in Ranks :
        C15_Case(r) =>
            \A x \in Coordinates : RowIs(r, x[1], x[2], C15_Diff(x[1], x[2], HScale \div 12))

\* C15 as amended: that row is the 4-point difference divided by 24*delta,
\* that is HScale/24 times it in units of 1 / (HScale * delta).
C15_RowTwentyFourth ==
    \A r \in Ranks :
        C15_Case(r) =>
            \A x \in Coordinates : RowIs(r, x[1], x[2], C15_Diff(x[1], x[2], HScale \div 24))

\* two tracked atoms, non-linear forces: the 4-point row differs from 8 times
\* the 2-point difference less the difference of the outer records
C15_Witness ==
    \E r \in Ranks :
        /\ C15_Case(r)
        /\ Len(indices) = 2
        /\ store[EqFile].data = Skew(InitPos)
        /\ \E x \in Coordinates :
              /\ StoredF(indices[x[1]], x[2], 2) # StoredF(indices[x[1]], x[2], 1)
              /\ \E c \in 1 .. 3 * Len(indices) :
                    Hrows[r].m[3 * (x[1] - 1) + x[2] + 1][c] # 0

\* the one-sided difference of direction ld, times the integer c
C16_Diff(k, i, ld, c) ==
    [b \in Atoms |-> [j \in Axes |->
        IF ld = "forward"
        THEN c * (StoredF(indices[k], i, 0)[b][j] - StoredF(indices[k], i, 1)[b][j])
        ELSE c * (StoredF(indices[k], i, -1)[b][j] - StoredF(indices[k], i, 0)[b][j])]]

C16_Case(r) ==
    /\ ReadDone(r)
    /\ method[r] = "standard" /\ direction[r] \in {"forward", "backward"}

\* C16: after read('standard', 'forward') the row of (a, i) before
\* symmetrization is (F(eq) - F(+delta)) / (2*delta), after
\* read('standard', 'backward') it is (F(-delta) - F(eq)) / (2*delta), for
\* nfree 2 and 4 alike: HScale/2 times the difference in units of
\* 1 / (HScale * delta), with no term from the records at +-2*delta.
C16_OneSided ==
    \A r \in Ranks :
        C16_Case(r) =>
            \A x \in Coordinates :
                RowIs(r, x[1], x[2], C16_Diff(x[1], x[2], direction[r], HScale \div 2))

\* nfree=4, backward, with outer records that differ from the inner ones
C16_Witness ==
    \E r \in Ranks :
        /\ C16_Case(r)
        /\ nfree = 4 /\ direction[r] = "backward"
        /\ Len(indices) = 2
        /\ \E x \in Coordinates :
              /\ StoredF(indices[x[1]], x[2], -2) # StoredF(indices[x[1]], x[2], -1)
              /\ C16_Diff(x[1], x[2], "backward", 1) # Zero

\* a record with the force on atom a lessened by the sum of the forces on all
\* atoms, the forces on the other atoms as they are
C17_Corr(F, a) ==
    [b \in Atoms |-> [j \in Axes |->
        IF b = a THEN F[a][j] - SumOver([c \in Atoms |-> F[c][j]], Atoms) ELSE F[b][j]]]

\* the corrected record of coordinate (a, i) displaced by step*delta
C17_F(a, i, step) == C17_Corr(StoredF(a, i, step), a)

\* the difference read() takes for direction ld, on corrected displaced
\* records and the equilibrium record as stored, in units of 1 / (HScale * delta)
C17_Diff(k, i, ld) ==
    LET a == indices[k]
    IN [b \in Atoms |-> [j \in Axes |->
          CASE ld = "central" /\ nfree = 2 ->
                 6 * (C17_F(a, i, -1)[b][j] - C17_F(a, i, 1)[b][j])
            [] ld = "central" /\ nfree = 4 ->
                 (0 - C17_F(a, i, -2)[b][j]) + 8 * C17_F(a, i, -1)[b][j]
                     - 8 * C17_F(a, i, 1)[b][j] + C17_F(a, i, 2)[b][j]
            [] ld = "forward" ->
                 12 * (StoredF(a, i, 0)[b][j] - C17_F(a, i, 1)[b][j])
            [] OTHER ->
                 12 * (C17_F(a, i, -1)[b][j] - StoredF(a, i, 0)[b][j])]]

C17_Case(r) == ReadDone(r) /\ method[r] = "frederiksen"

\* the steps whose records read() loads
C17_Steps == IF nfree = 4 THEN {-2, -1, 1, 2} ELSE {-1, 1}

\* C17: after read() with method frederiksen every row is the difference of
\* its direction taken on displaced records in which the force on the
\* displaced atom is replaced by that force minus the sum of the forces on all
\* atoms, tracked or not, and nothing else is changed; each such record sums
\* to zero along every axis; the equilibrium record enters as stored.
C17_Frederiksen ==
    \A r \in Ranks :
        C17_Case(r) =>
            \A x \in Coordinates :
                /\ RowIs(r, x[1], x[2], C17_Diff(x[1], x[2], direction[r]))
                /\ \A st \in C17_Steps, j \in Axes :
                      SumOver([b \in Atoms |-> C17_F(indices[x[1]], x[2], st)[b][j]], Atoms) = 0

\* a forward read with nfree=4 of one tracked atom out of two, on records
\* whose forces do not sum to zero, and an equilibrium record that does not
\* either
C17_Witness ==
    \E r \in Ranks :
        /\ C17_Case(r)
        /\ direction[r] = "forward" /\ nfree = 4
        /\ Len(indices) < NAtoms
        /\ \E j \in Axes : SumOver([b \in Atoms |-> StoredF(0, 0, 0)[b][j]], Atoms) # 0
        /\ \E x \in Coordinates :
              C17_F(indices[x[1]], x[2], 1) # StoredF(indices[x[1]], x[2], 1)

\* C18: the Hessian that read() stores is symmetric, H[i][j] = H[j][i] for all
\* i, j, and each entry is the sum row_i[j] + row_j[i] of the two entries of
\* the rows filled before the symmetrization, for every method, direction,
\* nfree and set of records.
C18_Symmetric ==
    \A r \in Ranks :
        H[r].set =>
            /\ DOMAIN H[r].m = DOMAIN Hrows[r].m
            /\ \A i, j \in DOMAIN H[r].m :
                  /\ H[r].m[i][j] = H[r].m[j][i]
                  /\ H[r].m[i][j] = Hrows[r].m[i][j] + Hrows[r].m[j][i]

\* rows that are not symmetric before the transpose is added, two atoms
C18_Witness ==
    \E r \in Ranks :
        /\ H[r].set
        /\ Len(indices) = 2
        /\ \E i, j \in DOMAIN Hrows[r].m :
              /\ Hrows[r].m[i][j] # Hrows[r].m[j][i]
              /\ H[r].m[i][j] # 0

\* the stiffness matrix of the oracle's springs: k = 2 between every pair of
\* atoms along each axis, and a tether of stiffness 1 of every atom
C19_K(b, j, c, l) ==
    IF j # l THEN 0
    ELSE IF b = c THEN 2 * (NAtoms - 1) + 1
    ELSE -2

\* the oracle's forces at pos are -K * pos
C19_Linear(pos) ==
    Oracle(pos) =
        [b \in Atoms |-> [j \in Axes |->
            0 - SumOver([c \in Atoms |-> C19_K(b, j, c, j) * pos[c][j]], Atoms)]]

\* read('standard', 'central') has succeeded with nfree=2 on records that this
\* job's run() wrote for all atoms
C19_Case(r) ==
    /\ ReadDone(r)
    /\ nfree = 2 /\ method[r] = "standard" /\ direction[r] = "central"
    /\ C11_NoDuplicates(indices) /\ Range(indices) = Atoms
    /\ \A f \in Req : store[f].st = "full" /\ wcount[f] = 1

\* C19: for an oracle whose forces are -K * x with K symmetric, and all atoms
\* tracked, the Hessian stored by read('standard', 'central') with nfree=2 on
\* the records of run() is K entry for entry, HScale * delta * K in the units
\* H is held in; the entry between two atoms joined by a spring k is -k and
\* carries no factor 2 or 1/2.
C19_HarmonicExact ==
    \A r \in Ranks :
        C19_Case(r) =>
            /\ C19_Linear(InitPos) /\ C19_Linear(positions[r])
            /\ \A b, c \in Atoms, j, l \in Axes : C19_K(b, j, c, l) = C19_K(c, l, b, j)
            /\ \A k, l \in 1 .. Len(indices), i, j \in Axes :
                  H[r].m[3 * (k - 1) + i + 1][3 * (l - 1) + j + 1] =
                      HScale * delta * C19_K(indices[k], i, indices[l], j)

\* both atoms tracked in the order 1, 0; the spring entry is -2 * HScale
C19_Witness ==
    \E r \in Ranks :
        /\ C19_Case(r)
        /\ indices = <<1, 0>>
        /\ H[r].m[1][4] = 0 - 2 * HScale * delta

\* C20: whenever a read() has succeeded, the Hessian has 3N rows of 3N
\* entries for the N tracked atoms, and a spectrum that get_energies() returns
\* has 3N entries, for every method, direction and nfree.
C20_SpectrumLength ==
    \A r \in Ranks :
        /\ H[r].set =>
              /\ Len(H[r].m) = 3 * Len(indices)
              /\ \A i \in DOMAIN H[r].m : Len(H[r].m[i]) = 3 * Len(indices)
              /\ hnu[r].set /\ Entries(hnu[r]) = 3 * Len(indices)
        /\ (ret[r].exc = "ok" /\ ret[r].val.set) =>
              Entries(ret[r].val) = 3 * Len(indices)

\* get_energies('Frederiksen', 'backward') has returned a spectrum for one
\* tracked atom out of two with nfree=4, after an earlier call
C20_Witness ==
    \E r \in Ranks :
        /\ ret[r].exc = "ok" /\ ret[r].val.set
        /\ Len(indices) = 1 /\ nfree = 4
        /\ method[r] = "frederiksen" /\ direction[r] = "backward"
        /\ nOps[r] >= 2
        /\ Entries(ret[r].val) = 3

\* C21: the end of read() never fails; an eigenvalue omega^2 < 0 gives a
\* spectrum entry with real part zero and imaginary part not zero, and an
\* eigenvalue omega^2 >= 0 gives an entry with imaginary part zero, whose
\* square is the eigenvalue in units of the conversion factor.
C21_SignHandling ==
    result.fn = "read" =>
        /\ result.exc = "ok"
        /\ DOMAIN result.hnu = DOMAIN call.omega2
        /\ \A n \in DOMAIN call.omega2 :
              LET w == call.omega2[n]
                  e == result.hnu[n]
              IN /\ w < 0 => (e.re = 0 /\ e.im # 0)
                 /\ w >= 0 => e.im = 0
                 /\ e.re * e.re - e.im * e.im = EnergyUnit * EnergyUnit * w

\* one negative eigenvalue among positive ones and a zero
C21_Witness ==
    /\ result.fn = "read"
    /\ Len(call.omega2) = 3
    /\ \E n \in 1 .. 3 : call.omega2[n] < 0 /\ result.hnu[n].im = 2
    /\ \E n \in 1 .. 3 : call.omega2[n] = 0
    /\ \E n \in 1 .. 3 : call.omega2[n] > 0 /\ result.hnu[n].re = 3

\* the frequencies a getter works on, as complex numbers in frequency units
C22_Freqs ==
    IF call.freq = NoFreq
    THEN [n \in DOMAIN call.omega2 |->
            LET w == call.omega2[n]
            IN IF w < 0 THEN [re |-> 0, im |-> FreqPerEnergy * EnergyUnit * Root(0 - w)]
               ELSE [re |-> FreqPerEnergy * EnergyUnit * Root(w), im |-> 0]]
    ELSE call.freq

\* the entries that count: imaginary part zero, real part at or above the
\* threshold
C22_Counted ==
    {n \in DOMAIN C22_Freqs :
        C22_Freqs[n].im = 0 /\ C22_Freqs[n].re >= call.threshold}

\* C22: get_enthalpy() and get_entropy() return the sum of their term over
\* exactly the entries with imaginary part zero and real frequency at or
\* above the threshold; get_zero_point_energy() returns half the sum of the
\* real parts of all entries (as energies, held times ZpeScale), whatever the
\* threshold.
C22_Cutoff ==
    /\ result.fn = "enthalpy" =>
          result.val = SumOver([n \in DOMAIN C22_Freqs |-> HTerm(C22_Freqs[n].re)], C22_Counted)
    /\ result.fn = "entropy" =>
          result.val = SumOver([n \in DOMAIN C22_Freqs |-> STerm(C22_Freqs[n].re)], C22_Counted)
    /\ result.fn = "zpe" =>
          2 * FreqPerEnergy * result.val =
              ZpeScale * SumOver([n \in DOMAIN C22_Freqs |-> C22_Freqs[n].re],
                                 DOMAIN C22_Freqs)

\* modes at 5, 10 and 1877 with the threshold 10: the enthalpy counts the
\* modes at 10 and 1877 only
C22_Witness ==
    /\ result.fn = "enthalpy"
    /\ call.threshold = 10
    /\ call.freq = <<[re |-> 5, im |-> 0], [re |-> 10, im |-> 0], [re |-> 1877, im |-> 0]>>
    /\ result.val = HTerm(10) + HTerm(1877)

\* the vector get_mode() is claimed to give atom a when it is the k-th
\* tracked atom: components 3k .. 3k+2 of eigenvector n, each times the
\* atom's mass^(-1/2) (times ImScale)
C23_Part(k, j) ==
    LET M == Modes(call.seed, indices)
        row == IF call.n < 0 THEN M[3 * Len(indices) + call.n + 1] ELSE M[call.n + 1]
    IN row[3 * (k - 1) + j + 1] * (ImScale \div Root(call.masses[indices[k]]))

C23_Shape ==
    /\ DOMAIN result.val = Atoms
    /\ \A a \in Atoms : DOMAIN result.val[a] = Axes
    /\ \A a \in Atoms \ Range(indices), j \in Axes : result.val[a][j] = 0

\* the call leaves the job, the modes and the spectrum as they are
C23_NoEffect == [][GetMode => UNCHANGED <<jobVars, call>>]_vars

\* C23: for a list of tracked atoms without duplicates, get_mode(n) returns
\* one 3-vector for every atom, zero for every untracked atom and, for the
\* k-th entry of the tracked list, the mass-scaled components 3k .. 3k+2 of
\* eigenvector n; the call changes neither the job nor the store nor the
\* modes and spectrum.
C23_Mode ==
    /\ [](result.fn = "get_mode" /\ C11_NoDuplicates(indices) =>
            /\ C23_Shape
            /\ \A k \in 1 .. Len(indices), j \in Axes :
                  result.val[indices[k]][j] = C23_Part(k, j))
    /\ C23_NoEffect

\* the last mode (n = -1) of the list 1, 0 with unlike masses, and another
\* with one atom untracked
C23_Witness ==
    /\ result.fn = "get_mode"
    /\ call.n = -1
    /\ indices = <<1, 0>>
    /\ call.masses[0] = 4 /\ call.masses[1] = 1
    /\ result.val[1][0] = ImScale * Modes(call.seed, indices)[6][1]
    /\ result.val[0][2] = Modes(call.seed, indices)[6][6]

\* the files of the directory that are none of the object's keys
C24_Foreign == AllFiles \ Req

\* C24, clean(): a clean() call leaves none of the object's keys (the
\* equilibrium record and the displacement records of its indices and nfree)
\* in the directory and every other file as it was; no other step removes a
\* file.
C24_CleanStep ==
    [][/\ ((\E r \in Ranks : Clean(r)) =>
              (/\ \A f \in Req : store'[f].st = "absent"
               /\ \A f \in C24_Foreign : store'[f] = store[f]))
        /\ ((\E f \in AllFiles : store[f].st # "absent" /\ store'[f].st = "absent") =>
              (\E r \in Ranks : Clean(r)))]_vars

\* C24, run() after it: a run() that was called on the directory as clean()
\* leaves it and has returned has called the oracle once for each of the
\* 1 + 3*nfree*N keys and left a record for each.
C24_RunAgain ==
    \A r \in Ranks :
        (pc[r] = "returned" /\ AbsentAtStart(r) = Req) =>
            /\ EvFiles(trace[r], "oracle") = Req
            /\ EvCount(trace[r], "oracle") = 1 + 3 * nfree * Len(indices)
            /\ Cardinality(Req) = 1 + 3 * nfree * Len(indices)
            /\ \A f \in Req : store[f].st = "full"

\* C24: clean() removes every existing record of the object's (name,
\* indices, nfree) and no other file, a run() after it evaluates all
\* 1 + 3*nfree*N keys again, and only clean() removes records.
C24_CacheClear == C24_CleanStep /\ []C24_RunAgain

\* get_energies() on the full directory, then clean(), then a run() that has
\* returned, with the other object's records still in place
C24_Witness ==
    \E r \in Ranks :
        /\ pc[r] = "returned" /\ nOps[r] = 3
        /\ ret[r].exc = "ok" /\ ret[r].val.set
        /\ AbsentAtStart(r) = Req
        /\ nfree = 2
        /\ EvCount(trace[r], "oracle") = 7
        /\ \A f \in Req : wcount[f] = 1
        /\ \E f \in C24_Foreign : store[f].st = "full" /\ startStore[r][f] = store[f]

\* the coordinate and signed step a displacement file name stands for
C25_Key(f) ==
    CHOOSE k \in [a : Atoms, i : Axes, n : {-2, -1, 1, 2}] :
        f = name \o "." \o ToString(k.a) \o AxisChar(k.i) \o
            (CASE k.n = -2 -> "--" [] k.n = -1 -> "-" [] k.n = 1 -> "+" [] OTHER -> "++")
            \o ".pckl"

\* the positions the evaluation for file f is claimed to see, pristine being
\* the positions at the call of run()
C25_Seen(pristine, f) ==
    IF f = EqFile THEN pristine
    ELSE LET k == C25_Key(f)
         IN [b \in Atoms |-> [j \in Axes |->
                IF b = k.a /\ j = k.i THEN pristine[b][j] + k.n * delta
                ELSE pristine[b][j]]]

\* components in which two position arrays differ
C25_Differ(x, y) == {c \in Atoms \X Axes : x[c[1]][c[2]] # y[c[1]][c[2]]}

\* C25: inside run(), with pristine the positions at the call: the oracle is
\* called for the equilibrium key at the pristine positions and for a
\* displacement key at the pristine positions with that one coordinate at
\* pristine + n*delta; the positions stay so until the record is written,
\* and are pristine at every other point of run() and when it returns.
C25_ScopedPerturbation ==
    \A r \in Ranks :
        /\ pc[r] \in {"eq_check", "barrier", "wait", "eval", "loop_init", "dis_check",
                      "returned"} =>
              positions[r] = startPos[r]
        /\ pc[r] = "eval" =>
              /\ EvalPos(r) = C25_Seen(startPos[r], CurFile(r))
              /\ Cardinality(C25_Differ(EvalPos(r), startPos[r])) <= 1
        /\ pc[r] \in {"open", "dump", "restore"} =>
              LET vis == C11_Visited(trace[r])
                  f == vis[Len(vis)]
              IN /\ f = CurFile(r)
                 /\ positions[r] = C25_Seen(startPos[r], f)
                 /\ forces[r] = Oracle(C25_Seen(startPos[r], f))
                 /\ Cardinality(C25_Differ(positions[r], startPos[r])) =
                       (IF f = EqFile THEN 0 ELSE 1)

\* the oracle has returned for the step -2 delta of the y coordinate, after
\* the evaluations of the x coordinate
C25_Witness ==
    \E r \in Ranks :
        /\ pc[r] = "open" /\ nfree = 4
        /\ CurFile(r) = FileName(indices[1], 1, -1, 2)
        /\ EvCount(trace[r], "oracle") >= 3
        /\ positions[r][indices[1]][1] = startPos[r][indices[1]][1] - 2 * delta
        /\ C25_Differ(positions[r], startPos[r]) = {<<indices[1], 1>>}

\* every rank is in the same pass of run() or has returned from it, all
\* were called on the same store content, the list names no atom twice
C27_Together ==
    /\ C11_NoDuplicates(indices)
    /\ \A r \in Ranks : InRun(r) \/ pc[r] = "returned"
    /\ \A r, q \in Ranks : nOps[r] = nOps[q] /\ startStore[r] = startStore[q]

\* the exists-checks of a rank found what the store held at the call, so that
\* all ranks skipped and evaluated the same keys; once all have returned they
\* have called barrier() equally often
C27_SameDecisions ==
    C27_Together =>
        /\ \A r \in Ranks : \A k \in 1 .. Len(trace[r]) :
              trace[r][k][1] = "check" =>
                 trace[r][k][3] = (startStore[r][trace[r][k][2]].st # "absent")
        /\ \A r, q \in Ranks :
              (pc[r] = "returned" /\ pc[q] = "returned") =>
                 /\ arrived[r] = arrived[q]
                 /\ EvCount(trace[r], "barrier") = EvCount(trace[q], "barrier")
                 /\ EvCount(trace[r], "barrier") = Cardinality(AbsentAtStart(r))

\* run() has ended on every rank: it returned, or an oracle call raised
C27_Ended ==
    \/ \A r \in Ranks : pc[r] = "returned"
    \/ \E r \in Ranks : pc[r] = "raised"

C26_Lower(x) ==
    CASE x = "Standard" -> "standard"
      [] x = "Frederiksen" -> "frederiksen"
      [] x = "Central" -> "central"
      [] x = "Forward" -> "forward"
      [] x = "Backward" -> "backward"
      [] OTHER -> x

\* no Hessian has been assembled, or the names differ from those of the last
\* read()
C26_MustRead(r, m, d) ==
    \/ ~H[r].set
    \/ C26_Lower(m) # method[r]
    \/ C26_Lower(d) # direction[r]

\* C26: get_energies(method, direction) goes through read() on the store as
\* it is now exactly when no Hessian has been assembled yet or the lower-cased
\* method or direction differs from that of the last read(); otherwise it
\* returns the spectrum assembled before and changes nothing, whatever has
\* happened to the records since.
C26_CacheRule ==
    [][\A r \in Ranks, m \in Methods, d \in Directions :
          GetEnergies(r, m, d) =>
             IF C26_MustRead(r, m, d)
             THEN /\ via'[r] = "read"
                  /\ ret'[r].exc = ReadExc(store, indices, nfree, m, d)
                  /\ ret'[r].exc = "ok" =>
                        /\ H'[r] = Matrix(ReadH(store, indices, nfree, m, d))
                        /\ ret'[r].val = H'[r]
             ELSE /\ via'[r] = "cache"
                  /\ ret'[r] = [exc |-> "ok", val |-> hnu[r]]
                  /\ H'[r] = H[r] /\ hnu'[r] = hnu[r]
                  /\ method'[r] = method[r] /\ direction'[r] = direction[r]]_vars

\* the third call is a get_energies() that returned the spectrum assembled
\* before clean() removed every record
C26_Witness ==
    \E r \in Ranks :
        /\ via[r] = "cache" /\ nOps[r] = 3
        /\ ret[r].exc = "ok" /\ ret[r].val.set /\ ret[r].val = hnu[r]
        /\ \A f \in Req : store[f].st = "absent"
        /\ ReadExc(store, indices, nfree, method[r], direction[r]) = "IOError"

\* C28: read(M, D) ends as read(lower(M), lower(D)) does on the same store:
\* it fails exactly when that call fails, so that it requires the same
\* records (read(direction='Central') succeeds without the equilibrium
\* record), and stores the same Hessian.
C28_CaseInsensitive ==
    [][\A r \in Ranks, m \in CaseMethods, d \in CaseDirections :
          Read(r, m, d) =>
             LET exc == ReadExc(store, indices, nfree, C26_Lower(m), C26_Lower(d))
             IN /\ ret'[r].exc = exc
                /\ exc = "ok" =>
                      H'[r] = Matrix(ReadH(store, indices, nfree,
                                           C26_Lower(m), C26_Lower(d)))]_vars

\* the species the input file gives atom n: the ChemicalSpecieslabel entry
\* whose number is the atom's species number
C29_Labelled(atoms, species, n) ==
    LET s == SpeciesOf(atoms, species)
        labels == ChemicalLabels(s.all)
    IN {k \in DOMAIN labels : labels[k].number = s.numbers[n]}

\* C29: species() returns a list and numbers such that every atom's number is
\* the 1-based position in the list of a species with the atom's symbol and,
\* when the species is tagged, the atom's tag; _write_species writes that
\* species under the same number and _write_atomic_coordinates writes the
\* number beside the atom.
C29_SpeciesNumbering ==
    /\ (result.fn = "species" /\ result.exc = "ok") =>
          \A n \in DOMAIN call.atoms :
              LET k == result.numbers[n]
              IN /\ k \in 1 .. Len(result.all)
                 /\ result.all[k].symbol = call.atoms[n].symbol
                 /\ result.all[k].tag # NoTag => result.all[k].tag = call.atoms[n].tag
    /\ (result.fn = "write_species" /\ result.exc = "ok") =>
          \A k \in DOMAIN result.labels :
              /\ result.labels[k].number = k
              /\ result.labels[k].symbol = SpeciesOf(call.atoms, call.species).all[k].symbol
    /\ (result.fn = "write_coordinates" /\ result.exc = "ok") =>
          \A n \in DOMAIN call.atoms :
              /\ result.lines[n] = SpeciesOf(call.atoms, call.species).numbers[n]
              /\ \A k \in C29_Labelled(call.atoms, call.species, n) :
                    result.lines[n] = k

TypeOK ==
    /\ size \in 1 .. MaxSize
    /\ \A f \in AllFiles : wcount[f] \in Nat
====
